---- MODULE Spec2Model ----
(***************************************************************************)
(* The authentication / token lifecycle of SpeechSense (FastAPI +          *)
(* SQLAlchemy async sessions over PostgreSQL).                              *)
(*                                                                         *)
(* Every request is served by a worker with its own database session.      *)
(* A handler is cut into steps at its database round trips: a SELECT reads *)
(* the committed store, a bulk DELETE fixes the set of rows it removes     *)
(* when the statement runs, and pending writes reach the store at COMMIT   *)
(* (READ COMMITTED).  Steps of different workers interleave freely.        *)
(***************************************************************************)
EXTENDS Integers, FiniteSets, Sequences, TLC

\* ---------------------------------------------------------------- bounds
Workers   == {"w1", "w2"}
Emails    == {"a@x", "b@x"}
Text(n, c) == [i \in 1..n |-> c]     \* the character c, n times
Passwords == {Text(8, "a"), Text(8, "b")}
Salts     == {"s1", "s2"}
NodeEnvs  == {"development", "production"}
MaxRefresh == 2      \* refresh token values ever generated
MaxReset   == 1      \* reset token values ever generated
MaxTicks   == 1      \* clock advances
MaxFiles == 2        \* audio files ever uploaded
MaxAnalyses == 2     \* speech analysis rows ever inserted
MaxJwtTicks == 2     \* clock advances while one access token is followed

\* ------------------------------------------------------ program constants
ACCESS_TOKEN_EXPIRE_MINUTES == 10080
RefreshExpiryMinutes == 43200
ResetExpiryMinutes == 60
SECRET_KEY == "server-secret"

HTTP_200 == 200
HTTP_400 == 400
HTTP_401 == 401
HTTP_403 == 403

HTTP_404 == 404
HTTP_500 == 500

NoUser  == 0     \* None where a user id is expected
NoToken == 0     \* None where an opaque token is expected

VARIABLES
    users,      \* table users:                 id -> [email, password]
    tokens,     \* table auth_tokens:           token -> [user_id, expires_at]
    resets,     \* table password_reset_tokens: token -> [user_id, expires_at, used]
    now,        \* datetime.utcnow(), in minutes
    ticks,      \* clock advances so far
    nRefresh,   \* refresh token values generated so far
    nReset,     \* reset token values generated so far
    lim,        \* the limits of the run (fixed by the initial state)
    pc,         \* per worker: the step its request is at
    loc,        \* per worker: the request's arguments and local variables
    done,       \* the request the last step finished, with its response
    ghost,      \* history: each user's current plaintext password, and the
                \* users whose password a reset has changed
    held,       \* an access token in a client's hands (SpecJwt)
    trial,      \* one run of hash_password and verify_password (SpecHash)
    audio_files,      \* table audio_files:     id -> [user_id]
    speech_analyses   \* table speech_analyses: id -> [user_id, audio_file_id]

vars == <<users, tokens, resets, now, ticks, nRefresh, nReset, lim, pc, loc, done, ghost, held,
         trial, audio_files, speech_analyses>>
store == <<users, tokens, resets>>
speech == <<audio_files, speech_analyses>>
fixed == <<lim, held, trial, speech>>

\* ------------------------------------------------------ password hashing
\* utils.py 14: the scheme is bcrypt, which reads the first 72 bytes of a
\* password and no more.
BcryptMaxBytes == 72

Truncate(password) ==
    IF Len(password) <= BcryptMaxBytes THEN password
    ELSE SubSeq(password, 1, BcryptMaxBytes)

\* bcrypt: the hash carries a fresh salt and the digest of (salt, the
\* password as far as bcrypt reads it).
hash_password(password, salt) ==
    [salt |-> salt, digest |-> <<salt, Truncate(password)>>]

\* Mutant: the digest is recomputed without the hash's salt.
verify_password_wrong_salt(plain_password, hashed_password) ==
    hashed_password.digest = <<"", plain_password>>

verify_password(plain_password, hashed_password) ==
    hashed_password.digest = <<hashed_password.salt, Truncate(plain_password)>>

\* ------------------------------------------------------------------- JWT
\* An HS256 token: the claims and the MAC of the claims under a key.
Sign(sub, exp, key) == [sub |-> sub, exp |-> exp, key |-> key]

NoJwt == [wf |-> FALSE, sub |-> NoUser, exp |-> 0, sig |-> Sign(NoUser, 0, "none")]

create_access_token(sub, t) ==
    LET expire == t + ACCESS_TOKEN_EXPIRE_MINUTES
    IN  [wf |-> TRUE, sub |-> sub, exp |-> expire, sig |-> Sign(sub, expire, SECRET_KEY)]

\* Mutant: the "exp" claim is not checked.
verify_token_no_expiry(token, t) ==
    IF ~token.wf THEN NoUser
    ELSE IF token.sig # Sign(token.sub, token.exp, SECRET_KEY) THEN NoUser
    ELSE token.sub

\* The decoded subject, or NoUser for the None that verify_token returns on
\* any JWTError (and for a payload without "sub").
verify_token(token, t) ==
    IF ~token.wf THEN NoUser
    ELSE IF token.sig # Sign(token.sub, token.exp, SECRET_KEY) THEN NoUser
    ELSE IF token.exp < t THEN NoUser
    ELSE token.sub

get_token_expiry(minutes, t) == t + minutes

\* ------------------------------------------------------------- responses
NoResp == [status |-> 0, detail |-> "", access_token |-> NoJwt,
           cookie |-> NoToken, reset_token |-> NoToken, user |-> NoUser,
           analysis |-> 0]

Reject(status, detail) == [NoResp EXCEPT !.status = status, !.detail = detail]

DuplicateEmail     == Reject(HTTP_400, "Email address already registered")
InvalidCredentials == Reject(HTTP_401, "Invalid email or password")
ServerError        == Reject(HTTP_500, "Internal Server Error")

\* An access token a client holds: the token, the subject and the time it
\* was minted for, and what was done to it since.
NoHeld == [token |-> NoJwt, sub |-> NoUser, iat |-> 0, kind |-> "none"]

\* A request: its arguments (op, email, password, token, bearer) and the
\* handler's locals (uid: the user row it works on; new: the token it made;
\* del: the rows its bulk DELETE removes; salt: of the hash it computed;
\* env: the NODE_ENV it read).
\* held records the user's refresh tokens when the request arrived.
NoLoc == [op |-> "", email |-> "", password |-> << >>, token |-> NoToken, bearer |-> NoJwt,
          uid |-> NoUser, new |-> NoToken, del |-> {}, held |-> {}, salt |-> "", env |-> "",
          file |-> 0]

\* ---------------------------------------------------------------- store
UserByEmail(email) == {u \in DOMAIN users : users[u].email = email}

\* select(User).where(User.email == email) ... scalar_one_or_none()
SelectUserByEmail(email) ==
    IF UserByEmail(email) = {} THEN NoUser ELSE CHOOSE u \in UserByEmail(email) : TRUE

\* utils.py 62-64: a uuid4; here the next unused number.
generate_user_id == Cardinality(DOMAIN users) + 1

TokensOf(u) == {t \in DOMAIN tokens : tokens[t].user_id = u}
ResetsOf(u) == {t \in DOMAIN resets : resets[t].user_id = u}

Without(f, S) == [x \in DOMAIN f \ S |-> f[x]]
With(f, k, v) == [x \in DOMAIN f \cup {k} |-> IF x = k THEN v ELSE f[x]]

\* Token rows a request is about to insert: its value is reserved when the
\* request is accepted so that the generators stay within their bounds.
RefreshInFlight == Cardinality({w \in Workers : pc[w] \in {"reg_add_user", "reg_add_token", "login_add_token"}})
ResetInFlight   == Cardinality({w \in Workers : pc[w] = "forgot_commit"})

\* A request goes to the first free worker, of as many as the run has.
WorkerNo(w) == IF w = "w1" THEN 1 ELSE 2

Free(w) ==
    /\ pc[w] = "idle"
    /\ w \in lim.workers
    /\ \A v \in Workers : WorkerNo(v) < WorkerNo(w) => pc[v] # "idle"

\* The step that ends a request hands its response to the client and frees
\* the worker; done keeps the request (req) and the response (resp) for the
\* state right after that step.
NoDone == [w |-> "", req |-> NoLoc, resp |-> NoResp]

Finish(w, req, r) ==
    /\ pc' = [pc EXCEPT ![w] = "idle"]
    /\ loc' = [loc EXCEPT ![w] = NoLoc]
    /\ done' = [w |-> w, req |-> req, resp |-> r]

Goto(w, label, req) ==
    /\ pc' = [pc EXCEPT ![w] = label]
    /\ loc' = [loc EXCEPT ![w] = req]
    /\ done' = NoDone


\* A run of the two functions: the password hashed (p2) with the salt drawn
\* for it, the password verified (p), the hash, and verify's answer.
NoTrial == [stage |-> "none", p |-> << >>, p2 |-> << >>, salt |-> "",
            hash |-> hash_password(<< >>, ""), ok |-> FALSE]

InitWith(l) ==
    /\ users = << >>
    /\ tokens = << >>
    /\ resets = << >>
    /\ now = 0
    /\ ticks = 0
    /\ nRefresh = 0
    /\ nReset = 0
    /\ lim = l
    /\ pc = [w \in Workers |-> "idle"]
    /\ loc = [w \in Workers |-> NoLoc]
    /\ done = NoDone
    /\ ghost = [plain |-> << >>, reset |-> {}]
    /\ held = NoHeld
    /\ trial = NoTrial
    /\ audio_files = << >>
    /\ speech_analyses = << >>

\* ------------------------------------------------------------- /register
\* Mutant: the email is not looked up before the insert.
RegisterCheckNoLookup(w, email, password) ==
    /\ Free(w)
    /\ nRefresh + RefreshInFlight < lim.refresh
    /\ Goto(w, "reg_add_user", [NoLoc EXCEPT !.op = "register", !.email = email,
                                             !.password = password])
    /\ UNCHANGED <<store, now, ticks, nRefresh, nReset, ghost, fixed>>

\* router.py 35-43: look the email up; reject a taken one.
RegisterCheck(w, email, password) ==
    /\ Free(w)
    /\ nRefresh + RefreshInFlight < lim.refresh
    /\ LET req == [NoLoc EXCEPT !.op = "register", !.email = email, !.password = password]
       IN  IF SelectUserByEmail(email) # NoUser
           THEN Finish(w, req, DuplicateEmail)
           ELSE Goto(w, "reg_add_user", req)
    /\ UNCHANGED <<store, now, ticks, nRefresh, nReset, ghost, fixed>>

\* Mutant: users.email has no unique index.
RegisterAddUserNoUniqueIndex(w, salt) ==
    /\ pc[w] = "reg_add_user"
    /\ LET id == generate_user_id
       IN  /\ users' = With(users, id, [email |-> loc[w].email,
                                        password |-> hash_password(loc[w].password, salt)])
           /\ ghost' = [ghost EXCEPT !.plain = With(ghost.plain, id, loc[w].password)]
           /\ Goto(w, "reg_add_token", [loc[w] EXCEPT !.uid = id])
    /\ UNCHANGED <<tokens, resets, now, ticks, nRefresh, nReset, fixed>>

\* router.py 45-58: hash the password, insert the User, commit.  The unique
\* index on users.email (models.py 24) fails the INSERT of a taken email:
\* the IntegrityError leaves the handler and get_db rolls back.
RegisterAddUser(w, salt) ==
    /\ pc[w] = "reg_add_user"
    /\ IF UserByEmail(loc[w].email) # {}
       THEN /\ Finish(w, loc[w], ServerError)
            /\ UNCHANGED <<users, ghost>>
       ELSE LET id == generate_user_id
            IN  /\ users' = With(users, id, [email |-> loc[w].email,
                                             password |-> hash_password(loc[w].password, salt)])
                /\ ghost' = [ghost EXCEPT !.plain = With(ghost.plain, id, loc[w].password)]
                /\ Goto(w, "reg_add_token", [loc[w] EXCEPT !.uid = id])
    /\ UNCHANGED <<tokens, resets, now, ticks, nRefresh, nReset, fixed>>

\* router.py 60-80: mint the access token, insert the refresh token, commit,
\* answer with RegisterResponse (message, user, access_token).
RegisterAddToken(w) ==
    /\ pc[w] = "reg_add_token"
    /\ LET refresh_token == nRefresh + 1
       IN  /\ nRefresh' = refresh_token
           /\ tokens' = With(tokens, refresh_token,
                             [user_id |-> loc[w].uid,
                              expires_at |-> get_token_expiry(RefreshExpiryMinutes, now)])
           /\ Finish(w, [loc[w] EXCEPT !.new = refresh_token],
                     [NoResp EXCEPT !.status = HTTP_200,
                                    !.detail = "User registered successfully",
                                    !.user = loc[w].uid,
                                    !.access_token = create_access_token(loc[w].uid, now)])
    /\ UNCHANGED <<users, resets, now, ticks, nReset, ghost, fixed>>

\* ---------------------------------------------------------------- /login
\* Mutant: an unknown email gets an error of its own.
LoginCheckLeaky(w, email, password) ==
    /\ Free(w)
    /\ nRefresh + RefreshInFlight < lim.refresh
    /\ LET user == SelectUserByEmail(email)
           req  == [NoLoc EXCEPT !.op = "login", !.email = email, !.password = password]
       IN  IF user = NoUser
           THEN Finish(w, req, Reject(HTTP_401, "User not found"))
           ELSE IF ~verify_password(password, users[user].password)
           THEN Finish(w, req, InvalidCredentials)
           ELSE Goto(w, "login_add_token", [req EXCEPT !.uid = user])
    /\ UNCHANGED <<store, now, ticks, nRefresh, nReset, ghost, fixed>>

\* router.py 90-98: one error for an unknown email and a wrong password.
LoginCheck(w, email, password) ==
    /\ Free(w)
    /\ nRefresh + RefreshInFlight < lim.refresh
    /\ LET user == SelectUserByEmail(email)
           req  == [NoLoc EXCEPT !.op = "login", !.email = email, !.password = password]
       IN  IF user = NoUser \/ ~verify_password(password, users[user].password)
           THEN Finish(w, req, InvalidCredentials)
           ELSE Goto(w, "login_add_token", [req EXCEPT !.uid = user])
    /\ UNCHANGED <<store, now, ticks, nRefresh, nReset, ghost, fixed>>

\* Mutant: a login waits while another login of the same user is in flight.
LoginAddTokenSerialized(w) ==
    /\ pc[w] = "login_add_token"
    /\ \A v \in Workers \ {w} : pc[v] = "login_add_token" => loc[v].uid # loc[w].uid
    /\ LET refresh_token == nRefresh + 1
       IN  /\ nRefresh' = refresh_token
           /\ tokens' = With(tokens, refresh_token,
                             [user_id |-> loc[w].uid,
                              expires_at |-> get_token_expiry(RefreshExpiryMinutes, now)])
           /\ Finish(w, [loc[w] EXCEPT !.new = refresh_token],
                     [NoResp EXCEPT !.status = HTTP_200,
                                    !.detail = "Login successful",
                                    !.user = loc[w].uid,
                                    !.cookie = refresh_token,
                                    !.access_token = create_access_token(loc[w].uid, now)])
    /\ UNCHANGED <<users, resets, now, ticks, nReset, ghost, fixed>>

\* Mutant: a login replaces the user's earlier sessions.
LoginAddTokenSingleSession(w) ==
    /\ pc[w] = "login_add_token"
    /\ LET refresh_token == nRefresh + 1
       IN  /\ nRefresh' = refresh_token
           /\ tokens' = With(Without(tokens, TokensOf(loc[w].uid)), refresh_token,
                             [user_id |-> loc[w].uid,
                              expires_at |-> get_token_expiry(RefreshExpiryMinutes, now)])
           /\ Finish(w, [loc[w] EXCEPT !.new = refresh_token],
                     [NoResp EXCEPT !.status = HTTP_200,
                                    !.detail = "Login successful",
                                    !.user = loc[w].uid,
                                    !.cookie = refresh_token,
                                    !.access_token = create_access_token(loc[w].uid, now)])
    /\ UNCHANGED <<users, resets, now, ticks, nReset, ghost, fixed>>

\* Mutant: the refresh token value is not fresh and the table takes it.
LoginAddTokenReusedValue(w) ==
    /\ pc[w] = "login_add_token"
    /\ LET refresh_token == 1
       IN  /\ nRefresh' = nRefresh + 1
           /\ tokens' = With(tokens, refresh_token,
                             [user_id |-> loc[w].uid,
                              expires_at |-> get_token_expiry(RefreshExpiryMinutes, now)])
           /\ Finish(w, [loc[w] EXCEPT !.new = refresh_token],
                     [NoResp EXCEPT !.status = HTTP_200,
                                    !.detail = "Login successful",
                                    !.user = loc[w].uid,
                                    !.cookie = refresh_token,
                                    !.access_token = create_access_token(loc[w].uid, now)])
    /\ UNCHANGED <<users, resets, now, ticks, nReset, ghost, fixed>>

\* router.py 100-130: mint the access token, insert the refresh token,
\* commit, set the refresh_token cookie.
LoginAddToken(w) ==
    /\ pc[w] = "login_add_token"
    /\ LET refresh_token == nRefresh + 1
       IN  /\ nRefresh' = refresh_token
           /\ tokens' = With(tokens, refresh_token,
                             [user_id |-> loc[w].uid,
                              expires_at |-> get_token_expiry(RefreshExpiryMinutes, now)])
           /\ Finish(w, [loc[w] EXCEPT !.new = refresh_token],
                     [NoResp EXCEPT !.status = HTTP_200,
                                    !.detail = "Login successful",
                                    !.user = loc[w].uid,
                                    !.cookie = refresh_token,
                                    !.access_token = create_access_token(loc[w].uid, now)])
    /\ UNCHANGED <<users, resets, now, ticks, nReset, ghost, fixed>>

\* ----------------------------------------------------------- dependencies
\* Mutant: the subject is trusted without the lookup of the user.
get_current_user_no_lookup(bearer) ==
    verify_token(bearer, now)

\* Mutant: an access token is honoured only while its user has a session,
\* that is a stored refresh token.
get_current_user_revocable(bearer) ==
    LET user_id == verify_token(bearer, now)
    IN  IF user_id = NoUser THEN NoUser
        ELSE IF user_id \notin DOMAIN users THEN NoUser
        ELSE IF TokensOf(user_id) = {} THEN NoUser
        ELSE user_id

\* dependencies.py 19-50: the user an access token names, or NoUser where
\* the dependency raises 401 "Could not validate credentials".
get_current_user(bearer) ==
    LET user_id == verify_token(bearer, now)
    IN  IF user_id = NoUser THEN NoUser
        ELSE IF user_id \notin DOMAIN users THEN NoUser
        ELSE user_id

\* dependencies.py 68-115: what the refresh cookie resolves to.
get_refresh_token_user(refresh_token) ==
    IF refresh_token = NoToken THEN [user |-> NoUser, detail |-> "Refresh token not provided"]
    ELSE IF refresh_token \notin DOMAIN tokens THEN [user |-> NoUser, detail |-> "Invalid refresh token"]
    ELSE IF tokens[refresh_token].expires_at < now THEN [user |-> NoUser, detail |-> "Refresh token expired"]
    ELSE IF tokens[refresh_token].user_id \notin DOMAIN users THEN [user |-> NoUser, detail |-> "User not found"]
    ELSE [user |-> tokens[refresh_token].user_id, detail |-> ""]

\* Mutant: an expired refresh token is rejected and left in the table.
RefreshDependencyNoDelete(refresh_token) ==
    UNCHANGED tokens

\* dependencies.py 94-103: an expired refresh token is deleted, and the
\* deletion committed, before the 401 is raised.
RefreshDependencyWrites(refresh_token) ==
    IF get_refresh_token_user(refresh_token).detail = "Refresh token expired"
    THEN tokens' = Without(tokens, {refresh_token})
    ELSE UNCHANGED tokens

\* Access tokens a client can present: one the server minted for a stored
\* user, one signed with another key, one whose subject was edited after
\* signing, and a string that is no JWT.
IssueTimes == {0, now}
Minted    == {create_access_token(u, t) : u \in DOMAIN users, t \in IssueTimes}
Forged    == {[create_access_token(u, now) EXCEPT !.sig.key = "attacker-key"] : u \in DOMAIN users}
Tampered  == {[j EXCEPT !.sub = u] : j \in Minted, u \in DOMAIN users}
Bearers   == Minted \cup Forged \cup Tampered \cup {NoJwt}
Cookies   == 0..nRefresh
ResetTokens == 1..nReset

\* --------------------------------------------------------------- /logout
\* Mutant: the logout acts on the owner of the refresh cookie.
LogoutAuthCookieOwner(w, bearer, cookie) ==
    /\ Free(w)
    /\ LET current_user == get_current_user(bearer)
           refresh      == get_refresh_token_user(cookie)
           req == [NoLoc EXCEPT !.op = "logout", !.bearer = bearer, !.token = cookie]
       IN  IF current_user = NoUser
           THEN /\ Finish(w, req, Reject(HTTP_401, "Could not validate credentials"))
                /\ UNCHANGED tokens
           ELSE IF refresh.user = NoUser
           THEN /\ Finish(w, req, Reject(HTTP_401, refresh.detail))
                /\ RefreshDependencyWrites(cookie)
           ELSE /\ Goto(w, "logout_delete", [req EXCEPT !.uid = refresh.user,
                                                        !.held = TokensOf(refresh.user)])
                /\ UNCHANGED tokens
    /\ UNCHANGED <<users, resets, now, ticks, nRefresh, nReset, ghost, fixed>>

\* Mutant: the refresh cookie is not asked for.
LogoutAuthAccessOnly(w, bearer, cookie) ==
    /\ Free(w)
    /\ LET current_user == get_current_user(bearer)
           req == [NoLoc EXCEPT !.op = "logout", !.bearer = bearer, !.token = cookie]
       IN  IF current_user = NoUser
           THEN Finish(w, req, Reject(HTTP_401, "Could not validate credentials"))
           ELSE Goto(w, "logout_delete", [req EXCEPT !.uid = current_user,
                                                     !.held = TokensOf(current_user)])
    /\ UNCHANGED <<store, now, ticks, nRefresh, nReset, ghost, fixed>>

\* router.py 135-136: both dependencies, current_user first.
LogoutAuth(w, bearer, cookie) ==
    /\ Free(w)
    /\ LET current_user == get_current_user(bearer)
           refresh      == get_refresh_token_user(cookie)
           req == [NoLoc EXCEPT !.op = "logout", !.bearer = bearer, !.token = cookie]
       IN  IF current_user = NoUser
           THEN /\ Finish(w, req, Reject(HTTP_401, "Could not validate credentials"))
                /\ UNCHANGED tokens
           ELSE IF refresh.user = NoUser
           THEN /\ Finish(w, req, Reject(HTTP_401, refresh.detail))
                /\ RefreshDependencyWrites(cookie)
           ELSE /\ Goto(w, "logout_delete", [req EXCEPT !.uid = current_user,
                                                        !.held = TokensOf(current_user)])
                /\ UNCHANGED tokens
    /\ UNCHANGED <<users, resets, now, ticks, nRefresh, nReset, ghost, fixed>>

\* Mutant: only the presented refresh token is deleted.
LogoutDeleteCurrentSession(w) ==
    /\ pc[w] = "logout_delete"
    /\ Goto(w, "logout_commit", [loc[w] EXCEPT !.del = {loc[w].token} \cap DOMAIN tokens])
    /\ UNCHANGED <<store, now, ticks, nRefresh, nReset, ghost, fixed>>

\* router.py 142: DELETE FROM auth_tokens WHERE user_id = current_user.id
\* removes the rows that are committed when the statement runs.
LogoutDelete(w) ==
    /\ pc[w] = "logout_delete"
    /\ Goto(w, "logout_commit", [loc[w] EXCEPT !.del = TokensOf(loc[w].uid)])
    /\ UNCHANGED <<store, now, ticks, nRefresh, nReset, ghost, fixed>>

\* router.py 143-148
LogoutCommit(w) ==
    /\ pc[w] = "logout_commit"
    /\ tokens' = Without(tokens, loc[w].del)
    /\ Finish(w, loc[w], [NoResp EXCEPT !.status = HTTP_200, !.detail = "Logout successful"])
    /\ UNCHANGED <<users, resets, now, ticks, nRefresh, nReset, ghost, fixed>>

\* -------------------------------------------------------------- /refresh
\* Mutant: the presented refresh token is consumed by a successful refresh.
RefreshRotating(w, cookie) ==
    /\ Free(w)
    /\ LET refresh == get_refresh_token_user(cookie)
           req == [NoLoc EXCEPT !.op = "refresh", !.token = cookie]
       IN  IF refresh.user = NoUser
           THEN /\ Finish(w, req, Reject(HTTP_401, refresh.detail))
                /\ RefreshDependencyWrites(cookie)
           ELSE /\ Finish(w, [req EXCEPT !.uid = refresh.user],
                          [NoResp EXCEPT !.status = HTTP_200,
                                         !.detail = "Token refreshed successfully",
                                         !.access_token = create_access_token(refresh.user, now)])
                /\ tokens' = Without(tokens, {cookie})
    /\ UNCHANGED <<users, resets, now, ticks, nRefresh, nReset, ghost, fixed>>

\* router.py 150-163
Refresh(w, cookie) ==
    /\ Free(w)
    /\ LET refresh == get_refresh_token_user(cookie)
           req == [NoLoc EXCEPT !.op = "refresh", !.token = cookie]
       IN  IF refresh.user = NoUser
           THEN Finish(w, req, Reject(HTTP_401, refresh.detail))
           ELSE Finish(w, [req EXCEPT !.uid = refresh.user],
                       [NoResp EXCEPT !.status = HTTP_200,
                                      !.detail = "Token refreshed successfully",
                                      !.access_token = create_access_token(refresh.user, now)])
    /\ RefreshDependencyWrites(cookie)
    /\ UNCHANGED <<users, resets, now, ticks, nRefresh, nReset, ghost, fixed>>

\* ------------------------------------------------------ /forgot-password
SuccessMessage == "If this email exists, a password reset link has been sent"

\* A row that an open transaction has updated or deleted is locked until
\* that transaction ends; a statement that needs it waits.
ResetRowLocked(w, t) ==
    \E v \in Workers \ {w} :
        \/ pc[v] = "reset_commit" /\ loc[v].token = t
        \/ pc[v] = "forgot_commit" /\ t \in loc[v].del

\* router.py 172-183: look the user up; for a user, DELETE FROM
\* password_reset_tokens WHERE user_id = user.id.
ForgotCheck(w, email) ==
    /\ Free(w)
    /\ nReset + ResetInFlight < lim.resets
    /\ LET user == SelectUserByEmail(email)
           req  == [NoLoc EXCEPT !.op = "forgot", !.email = email]
       IN  IF user = NoUser
           THEN Finish(w, req, [NoResp EXCEPT !.status = HTTP_200, !.detail = SuccessMessage])
           ELSE /\ \A t \in ResetsOf(user) : ~ResetRowLocked(w, t)
                /\ Goto(w, "forgot_commit", [req EXCEPT !.uid = user, !.del = ResetsOf(user)])
    /\ UNCHANGED <<store, now, ticks, nRefresh, nReset, ghost, fixed>>

\* Mutant: the reset token is in the response in every mode.
ForgotCommitEcho(w, NODE_ENV) ==
    /\ pc[w] = "forgot_commit"
    /\ LET reset_token == nReset + 1
       IN  /\ nReset' = reset_token
           /\ resets' = With(Without(resets, loc[w].del), reset_token,
                             [user_id |-> loc[w].uid,
                              expires_at |-> get_token_expiry(ResetExpiryMinutes, now),
                              used |-> FALSE])
           /\ Finish(w, [loc[w] EXCEPT !.new = reset_token, !.env = NODE_ENV],
                     [NoResp EXCEPT !.status = HTTP_200,
                                    !.detail = SuccessMessage,
                                    !.reset_token = reset_token])
    /\ UNCHANGED <<users, tokens, now, ticks, nRefresh, ghost, fixed>>

\* router.py 185-202: insert the new reset token, commit; the token is in
\* the response only when NODE_ENV is development.
ForgotCommit(w, NODE_ENV) ==
    /\ pc[w] = "forgot_commit"
    /\ LET reset_token == nReset + 1
       IN  /\ nReset' = reset_token
           /\ resets' = With(Without(resets, loc[w].del), reset_token,
                             [user_id |-> loc[w].uid,
                              expires_at |-> get_token_expiry(ResetExpiryMinutes, now),
                              used |-> FALSE])
           /\ Finish(w, [loc[w] EXCEPT !.new = reset_token, !.env = NODE_ENV],
                     [NoResp EXCEPT !.status = HTTP_200,
                                    !.detail = SuccessMessage,
                                    !.reset_token = IF NODE_ENV = "development"
                                                    THEN reset_token ELSE NoToken])
    /\ UNCHANGED <<users, tokens, now, ticks, nRefresh, ghost, fixed>>

\* ------------------------------------------------------- /reset-password
\* Mutant: a reset token that was used is cleared away when it is presented.
ResetCheckClearsUsed(w, token, password) ==
    /\ Free(w)
    /\ LET req == [NoLoc EXCEPT !.op = "reset", !.token = token, !.password = password]
       IN  IF token \notin DOMAIN resets \/ resets[token].used
           THEN /\ Finish(w, req, Reject(HTTP_400, "Invalid or expired reset token"))
                /\ resets' = Without(resets, {token} \cap DOMAIN resets)
           ELSE IF resets[token].expires_at < now
           THEN /\ ~ResetRowLocked(w, token)
                /\ resets' = Without(resets, {token})
                /\ Finish(w, req, Reject(HTTP_400, "Reset token has expired"))
           ELSE IF resets[token].user_id \notin DOMAIN users
           THEN /\ Finish(w, req, Reject(HTTP_400, "User not found"))
                /\ UNCHANGED resets
           ELSE /\ Goto(w, "reset_flush", [req EXCEPT !.uid = resets[token].user_id,
                                                     !.held = TokensOf(resets[token].user_id)])
                /\ UNCHANGED resets
    /\ UNCHANGED <<users, tokens, now, ticks, nRefresh, nReset, ghost, fixed>>

\* router.py 211-243: find the unused token; delete an expired one.
ResetCheck(w, token, password) ==
    /\ Free(w)
    /\ LET req == [NoLoc EXCEPT !.op = "reset", !.token = token, !.password = password]
       IN  IF token \notin DOMAIN resets \/ resets[token].used
           THEN /\ Finish(w, req, Reject(HTTP_400, "Invalid or expired reset token"))
                /\ UNCHANGED resets
           ELSE IF resets[token].expires_at < now
           THEN /\ ~ResetRowLocked(w, token)
                /\ resets' = Without(resets, {token})
                /\ Finish(w, req, Reject(HTTP_400, "Reset token has expired"))
           ELSE IF resets[token].user_id \notin DOMAIN users
           THEN /\ Finish(w, req, Reject(HTTP_400, "User not found"))
                /\ UNCHANGED resets
           ELSE /\ Goto(w, "reset_flush", [req EXCEPT !.uid = resets[token].user_id,
                                                     !.held = TokensOf(resets[token].user_id)])
                /\ UNCHANGED resets
    /\ UNCHANGED <<users, tokens, now, ticks, nRefresh, nReset, ghost, fixed>>

\* Mutant: the user's refresh tokens are not deleted.
ResetFlushNoDelete(w, salt) ==
    /\ pc[w] = "reset_flush"
    /\ ~ResetRowLocked(w, loc[w].token)
    /\ IF loc[w].token \notin DOMAIN resets
       THEN Finish(w, loc[w], ServerError)
       ELSE Goto(w, "reset_commit", [loc[w] EXCEPT !.salt = salt])
    /\ UNCHANGED <<store, now, ticks, nRefresh, nReset, ghost, fixed>>

\* router.py 245-252: the new hash and used = True are flushed as UPDATEs
\* before DELETE FROM auth_tokens WHERE user_id = user.id runs.  An UPDATE
\* of a row that is gone raises StaleDataError, and get_db rolls back.
ResetFlush(w, salt) ==
    /\ pc[w] = "reset_flush"
    /\ ~ResetRowLocked(w, loc[w].token)
    /\ IF loc[w].token \notin DOMAIN resets
       THEN Finish(w, loc[w], ServerError)
       ELSE Goto(w, "reset_commit", [loc[w] EXCEPT !.salt = salt, !.del = TokensOf(loc[w].uid)])
    /\ UNCHANGED <<store, now, ticks, nRefresh, nReset, ghost, fixed>>

\* Mutant: the new hash is not written.
ResetCommitKeepsPassword(w) ==
    /\ pc[w] = "reset_commit"
    /\ users' = users
    /\ resets' = [resets EXCEPT ![loc[w].token].used = TRUE]
    /\ tokens' = Without(tokens, loc[w].del)
    /\ ghost' = [plain |-> [ghost.plain EXCEPT ![loc[w].uid] = loc[w].password],
                 reset |-> ghost.reset \cup {loc[w].uid}]
    /\ Finish(w, loc[w], [NoResp EXCEPT !.status = HTTP_200,
                                        !.detail = "Password has been reset successfully. Please log in with your new password."])
    /\ UNCHANGED <<now, ticks, nRefresh, nReset, fixed>>

\* router.py 254-258: one commit for the three writes.
ResetCommit(w) ==
    /\ pc[w] = "reset_commit"
    /\ users' = [users EXCEPT ![loc[w].uid].password = hash_password(loc[w].password, loc[w].salt)]
    /\ resets' = [resets EXCEPT ![loc[w].token].used = TRUE]
    /\ tokens' = Without(tokens, loc[w].del)
    /\ ghost' = [plain |-> [ghost.plain EXCEPT ![loc[w].uid] = loc[w].password],
                 reset |-> ghost.reset \cup {loc[w].uid}]
    /\ Finish(w, loc[w], [NoResp EXCEPT !.status = HTTP_200,
                                        !.detail = "Password has been reset successfully. Please log in with your new password."])
    /\ UNCHANGED <<now, ticks, nRefresh, nReset, fixed>>

\* ------------------------------------------------- /verify-reset-token
\* Mutant: expires_at is not looked at.
VerifyResetTokenNoExpiry(w, token) ==
    /\ Free(w)
    /\ LET req   == [NoLoc EXCEPT !.op = "verify", !.token = token]
           found == token \in DOMAIN resets /\ ~resets[token].used
       IN  IF ~found
           THEN Finish(w, req, [NoResp EXCEPT !.status = HTTP_200,
                                              !.detail = "Token is invalid or expired"])
           ELSE Finish(w, req, [NoResp EXCEPT !.status = HTTP_200,
                                              !.detail = "Token is valid"])
    /\ UNCHANGED <<store, now, ticks, nRefresh, nReset, ghost, fixed>>

\* router.py 260-285: a read of the unused token with that value; nothing is
\* written, whatever the answer.
VerifyResetToken(w, token) ==
    /\ Free(w)
    /\ LET req   == [NoLoc EXCEPT !.op = "verify", !.token = token]
           found == token \in DOMAIN resets /\ ~resets[token].used
       IN  IF ~found \/ resets[token].expires_at < now
           THEN Finish(w, req, [NoResp EXCEPT !.status = HTTP_200,
                                              !.detail = "Token is invalid or expired"])
           ELSE Finish(w, req, [NoResp EXCEPT !.status = HTTP_200,
                                              !.detail = "Token is valid"])
    /\ UNCHANGED <<store, now, ticks, nRefresh, nReset, ghost, fixed>>

\* ------------------------------------------------------------ environment
\* ------------------------------------------------ optional current user
\* dependencies.py 17: security = HTTPBearer() is built with the default
\* auto_error, so a request without an "Authorization: Bearer" header is
\* answered "Not authenticated" by the scheme itself (403, or 401 in later
\* releases of the framework) and the dependant is never called.
NotAuthenticated == {Reject(s, "Not authenticated") : s \in {HTTP_401, HTTP_403}}

\* What the dependency hands to its endpoint: a user, or NoUser for None.
Yields(user) == [NoResp EXCEPT !.detail = "returned", !.user = user]

\* dependencies.py 52-66: get_current_user_optional behind the scheme of
\* line 17. present: the request carries bearer credentials.
GetCurrentUserOptional(w, present, bearer) ==
    /\ Free(w)
    /\ LET req == [NoLoc EXCEPT !.op = IF present THEN "optional" ELSE "optional_no_header",
                                !.bearer = IF present THEN bearer ELSE NoJwt]
       IN  IF ~present
           THEN \E r \in NotAuthenticated : Finish(w, req, r)
           ELSE Finish(w, req, Yields(get_current_user(bearer)))
    /\ UNCHANGED <<store, now, ticks, nRefresh, nReset, ghost, fixed>>

\* ------------------------------------------------- hashing on its own
\* Passwords the schemas let through (schemas.py 31-35 and 58-62 ask for 8
\* characters or more and set no upper limit): short ones, and ones that
\* end on either side of bcrypt's 72 bytes.
PrefixLens == {8, BcryptMaxBytes - 1, BcryptMaxBytes}
Tails == {<< >>, <<"a">>, <<"b">>}
TrialPasswords == {Text(n, "a") \o t : n \in PrefixLens, t \in Tails}

\* utils.py 22-24: hash_password(p2), with the salt bcrypt drew.
HashPassword ==
    /\ trial.stage = "drawn"
    /\ trial' = [trial EXCEPT !.stage = "hashed", !.hash = hash_password(trial.p2, trial.salt)]
    /\ UNCHANGED <<store, now, ticks, nRefresh, nReset, ghost, lim, pc, loc, done, held, speech>>

\* utils.py 26-28: verify_password(p, the hash above).
VerifyPassword ==
    /\ trial.stage = "hashed"
    /\ trial' = [trial EXCEPT !.stage = "verified", !.ok = verify_password(trial.p, trial.hash)]
    /\ UNCHANGED <<store, now, ticks, nRefresh, nReset, ghost, lim, pc, loc, done, held, speech>>

\* ------------------------------------------------------- speech: /upload
\* What an upload carries, as far as the handler's two checks go.
UploadKinds == {"audio", "unsupported_type", "too_large"}

\* speech/router.py 21-84: the two checks, then one row in audio_files,
\* owned by the caller, under the next serial id.
UploadAudioFile(w, bearer, kind) ==
    /\ Free(w)
    /\ Cardinality(DOMAIN audio_files) < MaxFiles
    /\ LET current_user == get_current_user(bearer)
           req == [NoLoc EXCEPT !.op = "upload", !.bearer = bearer, !.uid = current_user]
           id  == Cardinality(DOMAIN audio_files) + 1
       IN  IF current_user = NoUser
           THEN /\ Finish(w, req, Reject(HTTP_401, "Could not validate credentials"))
                /\ UNCHANGED audio_files
           ELSE IF kind = "unsupported_type"
           THEN /\ Finish(w, req, Reject(HTTP_400, "File type not supported"))
                /\ UNCHANGED audio_files
           ELSE IF kind = "too_large"
           THEN /\ Finish(w, req, Reject(HTTP_400, "File size exceeds 50MB limit"))
                /\ UNCHANGED audio_files
           ELSE /\ audio_files' = With(audio_files, id, [user_id |-> current_user])
                /\ Finish(w, [req EXCEPT !.file = id],
                          [NoResp EXCEPT !.status = HTTP_200, !.user = current_user])
    /\ UNCHANGED <<store, now, ticks, nRefresh, nReset, ghost, lim, held, trial, speech_analyses>>

\* ------------------------------------------- speech: /analyze/{audio_file_id}
\* The analysis rows of an audio file.
AnalysesOf(audio_file_id) ==
    {a \in DOMAIN speech_analyses : speech_analyses[a].audio_file_id = audio_file_id}

AnalysesInFlight == Cardinality({w \in Workers : pc[w] = "analyze_insert"})

\* speech/router.py 86-131: the caller's file, or 404; the file's analysis if
\* there is one (scalar_one_or_none raises on more than one row, which the
\* framework answers with 500); else on to the insert.
AnalyzeCheck(w, bearer, audio_file_id) ==
    /\ Free(w)
    /\ LET current_user == get_current_user(bearer)
           req == [NoLoc EXCEPT !.op = "analyze", !.bearer = bearer, !.uid = current_user,
                                !.file = audio_file_id]
           existing == AnalysesOf(audio_file_id)
       IN  IF current_user = NoUser
           THEN Finish(w, req, Reject(HTTP_401, "Could not validate credentials"))
           ELSE IF \/ audio_file_id \notin DOMAIN audio_files
                   \/ audio_files[audio_file_id].user_id # current_user
           THEN Finish(w, req, Reject(HTTP_404, "Audio file not found"))
           ELSE IF Cardinality(existing) > 1
           THEN Finish(w, req, ServerError)
           ELSE IF existing # {}
           THEN Finish(w, req, [NoResp EXCEPT !.status = HTTP_200, !.user = current_user,
                                              !.analysis = CHOOSE a \in existing : TRUE])
           ELSE /\ Cardinality(DOMAIN speech_analyses) + AnalysesInFlight < MaxAnalyses
                /\ Goto(w, "analyze_insert", req)
    /\ UNCHANGED <<store, now, ticks, nRefresh, nReset, ghost, fixed>>

\* speech/router.py 133-174: insert the mock analysis and commit.
AnalyzeInsert(w) ==
    /\ pc[w] = "analyze_insert"
    /\ LET id == Cardinality(DOMAIN speech_analyses) + 1
       IN  /\ speech_analyses' = With(speech_analyses, id,
                                      [user_id |-> loc[w].uid, audio_file_id |-> loc[w].file])
           /\ Finish(w, loc[w], [NoResp EXCEPT !.status = HTTP_200, !.user = loc[w].uid,
                                               !.analysis = id])
    /\ UNCHANGED <<store, now, ticks, nRefresh, nReset, ghost, lim, held, trial, audio_files>>

\* database.py 55-65: an exception anywhere in a handler rolls the session
\* back: what the request has not committed is dropped, what it has
\* committed stays.
Fail(w) ==
    /\ pc[w] # "idle"
    /\ Finish(w, loc[w], ServerError)
    /\ UNCHANGED <<store, now, ticks, nRefresh, nReset, ghost, fixed>>

Tick(d) ==
    /\ ticks < lim.ticks
    /\ ticks' = ticks + 1
    /\ now' = now + d
    /\ done' = NoDone
    /\ UNCHANGED <<store, nRefresh, nReset, ghost, pc, loc, fixed>>

\* ------------------------------------------------- a client's access token
Subjects == {1, 2}
TamperKinds == {"resubject", "extended", "resigned", "malformed"}

\* utils.py 30-40: the server mints a token for a subject.
JwtMint(sub) ==
    /\ held' = [token |-> create_access_token(sub, now), sub |-> sub, iat |-> now,
                kind |-> "minted"]
    /\ UNCHANGED <<store, ghost, now, ticks, nRefresh, nReset, lim, pc, loc, done, trial, speech>>

\* What a client can do to the token it holds without the server's key:
\* edit a claim and keep the signature, sign with a key of its own, or cut
\* the string.
JwtTamper(kind) ==
    /\ held.kind = "minted"
    /\ held' = [held EXCEPT
           !.kind = kind,
           !.token = CASE kind = "resubject" -> [@ EXCEPT !.sub = CHOOSE s \in Subjects : s # @]
                       [] kind = "extended"  -> [@ EXCEPT !.exp = @ + ACCESS_TOKEN_EXPIRE_MINUTES]
                       [] kind = "resigned"  -> [@ EXCEPT !.sig.key = "attacker-key"]
                       [] OTHER              -> [@ EXCEPT !.wf = FALSE]]
    /\ UNCHANGED <<store, ghost, now, ticks, nRefresh, nReset, lim, pc, loc, done, trial, speech>>

JwtTick(d) ==
    /\ ticks < lim.ticks
    /\ ticks' = ticks + 1
    /\ now' = now + d
    /\ UNCHANGED <<store, ghost, nRefresh, nReset, pc, loc, done, fixed>>

Register ==
    \/ \E w \in Workers, e \in Emails, p \in Passwords : RegisterCheck(w, e, p)
    \/ \E w \in Workers, s \in lim.salts : RegisterAddUser(w, s)
    \/ \E w \in Workers : RegisterAddToken(w)

Login ==
    \/ \E w \in Workers, e \in Emails, p \in Passwords : LoginCheck(w, e, p)
    \/ \E w \in Workers : LoginAddToken(w)

Logout ==
    \/ \E w \in Workers, b \in Bearers, c \in Cookies : LogoutAuth(w, b, c)
    \/ \E w \in Workers : LogoutDelete(w)
    \/ \E w \in Workers : LogoutCommit(w)

RefreshToken == \E w \in Workers, c \in Cookies : Refresh(w, c)

Forgot ==
    \/ \E w \in Workers, e \in Emails : ForgotCheck(w, e)
    \/ \E w \in Workers, env \in NodeEnvs : ForgotCommit(w, env)

Reset ==
    \/ \E w \in Workers, t \in ResetTokens, p \in Passwords : ResetCheck(w, t, p)
    \/ \E w \in Workers, s \in lim.salts : ResetFlush(w, s)
    \/ \E w \in Workers : ResetCommit(w)

Verify == \E w \in Workers, t \in ResetTokens : VerifyResetToken(w, t)

\* A logout whose bearer carries the server's signature over any subject:
\* the id of a stored user, an id no user has, or no subject at all.
LogoutSigned ==
    \E w \in Workers, sub \in Subjects \cup {NoUser}, c \in Cookies :
        LogoutAuth(w, create_access_token(sub, now), c)

\* Access tokens signed by the server over any subject, issued at any time.
Signed == {create_access_token(sub, t) : sub \in Subjects \cup {NoUser}, t \in IssueTimes}

Optional ==
    \E w \in Workers, present \in BOOLEAN, b \in Bearers \cup Signed :
        GetCurrentUserOptional(w, present, b)

\* Speech requests carry an access token the server signed just now, for a
\* stored user or for an id no user has.
Upload ==
    \E w \in Workers, sub \in Subjects, k \in UploadKinds :
        UploadAudioFile(w, create_access_token(sub, now), k)

Analyze ==
    \/ \E w \in Workers, sub \in Subjects, f \in 1..MaxFiles :
          AnalyzeCheck(w, create_access_token(sub, now), f)
    \/ \E w \in Workers : AnalyzeInsert(w)

Crash == \E w \in Workers : Fail(w)
Clock == \E d \in lim.steps : Tick(d)

\* Sessions: registration, login, refresh and logout by two workers.
Next == Register \/ Login \/ Logout \/ RefreshToken

Spec ==
    /\ InitWith([workers |-> Workers, salts |-> {"s1"}, refresh |-> MaxRefresh,
                 resets |-> 0, ticks |-> 0, steps |-> {}])
    /\ [][Next]_vars

\* Account recovery: forgot-password and reset-password beside registration
\* and login, by two workers.
NextRecovery == Register \/ Login \/ Forgot \/ Reset

SpecRecovery ==
    /\ InitWith([workers |-> Workers, salts |-> {"s1"}, refresh |-> MaxRefresh,
                 resets |-> MaxReset, ticks |-> 0, steps |-> {}])
    /\ [][NextRecovery]_vars

\* Account recovery with a clock that can pass a reset token's hour, and
\* hashes of either salt.
NextExpiry == Register \/ Login \/ Forgot \/ Reset \/ Clock

SpecExpiry ==
    /\ InitWith([workers |-> Workers, salts |-> Salts, refresh |-> MaxRefresh,
                 resets |-> MaxReset, ticks |-> MaxTicks, steps |-> {ResetExpiryMinutes + 1}])
    /\ [][NextExpiry]_vars

\* Sessions over time: registration, login, refresh and logout, one request
\* at a time, with a clock that can pass an access token's week and a refresh token's month.
NextStale == Register \/ Login \/ Logout \/ RefreshToken \/ Clock

SpecStale ==
    /\ InitWith([workers |-> {"w1"}, salts |-> {"s1"}, refresh |-> MaxRefresh,
                 resets |-> 0, ticks |-> MaxTicks,
                 steps |-> {ACCESS_TOKEN_EXPIRE_MINUTES + 1, RefreshExpiryMinutes + 1}])
    /\ [][NextStale]_vars

\* Reset tokens from creation to past their hour, presented to
\* reset-password and to verify-reset-token.
NextVerify == Register \/ Forgot \/ Reset \/ Verify \/ Clock

SpecVerify ==
    /\ InitWith([workers |-> Workers, salts |-> {"s1"}, refresh |-> MaxRefresh,
                 resets |-> MaxReset, ticks |-> MaxTicks, steps |-> {ResetExpiryMinutes + 1}])
    /\ [][NextVerify]_vars

\* Repeated forgot-password: a user can be given a second reset token while
\* an earlier one is stored, by two workers.
NextForgot == Register \/ Forgot \/ Reset \/ Verify

SpecForgot ==
    /\ InitWith([workers |-> Workers, salts |-> {"s1"}, refresh |-> MaxRefresh,
                 resets |-> MaxReset + 1, ticks |-> 0, steps |-> {}])
    /\ [][NextForgot]_vars

\* Logins side by side: one registration leaves room for two logins, which
\* two workers can run at the same time.
NextLogin == Register \/ Login \/ RefreshToken

SpecLogin ==
    /\ InitWith([workers |-> Workers, salts |-> {"s1"}, refresh |-> MaxRefresh + 1,
                 resets |-> 0, ticks |-> 0, steps |-> {}])
    /\ [][NextLogin]_vars

\* Access tokens of any subject against the users that are stored, one
\* request at a time.
NextSubject ==
    \/ Register
    \/ Login
    \/ LogoutSigned
    \/ \E w \in Workers : LogoutDelete(w)
    \/ \E w \in Workers : LogoutCommit(w)

SpecSubject ==
    /\ InitWith([workers |-> {"w1"}, salts |-> {"s1"}, refresh |-> MaxRefresh,
                 resets |-> 0, ticks |-> 0, steps |-> {}])
    /\ [][NextSubject]_vars

\* The optional current user: one request at a time, with access tokens of
\* any kind and age.
NextOptional == Register \/ Optional \/ Clock

SpecOptional ==
    /\ InitWith([workers |-> {"w1"}, salts |-> {"s1"}, refresh |-> MaxRefresh,
                 resets |-> 0, ticks |-> MaxTicks, steps |-> {ACCESS_TOKEN_EXPIRE_MINUTES + 1}])
    /\ [][NextOptional]_vars

\* hash_password and verify_password on their own, for every pair of
\* passwords and every salt.
InitHash ==
    /\ users = << >>
    /\ tokens = << >>
    /\ resets = << >>
    /\ now = 0
    /\ ticks = 0
    /\ nRefresh = 0
    /\ nReset = 0
    /\ lim = [workers |-> {}, salts |-> Salts, refresh |-> 0, resets |-> 0,
              ticks |-> 0, steps |-> {}]
    /\ pc = [w \in Workers |-> "idle"]
    /\ loc = [w \in Workers |-> NoLoc]
    /\ done = NoDone
    /\ ghost = [plain |-> << >>, reset |-> {}]
    /\ held = NoHeld
    /\ audio_files = << >>
    /\ speech_analyses = << >>
    /\ trial \in {[NoTrial EXCEPT !.stage = "drawn", !.p = p, !.p2 = p2, !.salt = s] :
                     p \in TrialPasswords, p2 \in TrialPasswords, s \in Salts}

NextHash == HashPassword \/ VerifyPassword

SpecHash == InitHash /\ [][NextHash]_vars

\* Logout with the access token of one user and the refresh cookie of
\* another, beside registration, by two workers.
NextCross == Register \/ Logout

SpecCross ==
    /\ InitWith([workers |-> Workers, salts |-> {"s1"}, refresh |-> MaxRefresh,
                 resets |-> 0, ticks |-> 0, steps |-> {}])
    /\ [][NextCross]_vars

\* Access tokens across logout and reset-password: one request at a time
\* (a logout carries a freshly signed token), with the clock running past
\* the life of an access token.
NextRevoke ==
    \/ Register
    \/ LogoutSigned
    \/ \E w \in Workers : LogoutDelete(w)
    \/ \E w \in Workers : LogoutCommit(w)
    \/ Forgot
    \/ Reset
    \/ Clock

SpecRevoke ==
    /\ InitWith([workers |-> {"w1"}, salts |-> {"s1"}, refresh |-> MaxRefresh,
                 resets |-> MaxReset, ticks |-> MaxTicks,
                 steps |-> {ACCESS_TOKEN_EXPIRE_MINUTES + 1}])
    /\ [][NextRevoke]_vars

\* Rejections: every operation, one request at a time, with the clock
\* running past the life of a refresh token (and so of a reset token).
NextReject ==
    \/ Register
    \/ Login
    \/ LogoutSigned
    \/ \E w \in Workers : LogoutDelete(w)
    \/ \E w \in Workers : LogoutCommit(w)
    \/ RefreshToken
    \/ Forgot
    \/ Reset
    \/ Clock

SpecReject ==
    /\ InitWith([workers |-> {"w1"}, salts |-> {"s1"}, refresh |-> MaxRefresh,
                 resets |-> MaxReset, ticks |-> MaxTicks,
                 steps |-> {RefreshExpiryMinutes + 1}])
    /\ [][NextReject]_vars

\* verify-reset-token beside reset-password: the reset tokens of the
\* registered users, two workers, the clock running past a token's hour.
NextAgree == Register \/ Forgot \/ Reset \/ Verify \/ Clock

SpecAgree ==
    /\ InitWith([workers |-> Workers, salts |-> {"s1"}, refresh |-> MaxRefresh - 1,
                 resets |-> MaxReset, ticks |-> MaxTicks, steps |-> {ResetExpiryMinutes + 1}])
    /\ [][NextAgree]_vars

\* Speech analysis: upload and analyze by the registered users, two workers.
NextSpeech == Register \/ Upload \/ Analyze

SpecSpeech ==
    /\ InitWith([workers |-> Workers, salts |-> {"s1"}, refresh |-> MaxRefresh,
                 resets |-> 0, ticks |-> 0, steps |-> {}])
    /\ [][NextSpeech]_vars

\* Faults: one worker at a time, any request may die of an exception.
NextFault == Register \/ Login \/ Forgot \/ Reset \/ Crash

SpecFault ==
    /\ InitWith([workers |-> {"w1"}, salts |-> Salts, refresh |-> MaxRefresh,
                 resets |-> MaxReset, ticks |-> 0, steps |-> {}])
    /\ [][NextFault]_vars

\* One access token from minting to past its expiry, in a client's hands.
NextJwt ==
    \/ \E sub \in Subjects : JwtMint(sub)
    \/ \E kind \in TamperKinds : JwtTamper(kind)
    \/ \E d \in lim.steps : JwtTick(d)

SpecJwt ==
    /\ InitWith([workers |-> {}, salts |-> {}, refresh |-> 0, resets |-> 0,
                 ticks |-> MaxJwtTicks, steps |-> {1, ACCESS_TOKEN_EXPIRE_MINUTES}])
    /\ [][NextJwt]_vars

\* ======================================================================
\* Properties
\* ======================================================================

\* The step in which worker w takes a request for operation op.
Arrives(w, op) ==
    /\ pc[w] = "idle"
    /\ \/ pc'[w] # "idle" /\ loc'[w].op = op
       \/ pc'[w] = "idle" /\ done' # done /\ done'.w = w /\ done'.req.op = op

\* The request of the step above.
Arrived(w) == IF pc'[w] # "idle" THEN loc'[w] ELSE done'.req

\* The step in which worker w ends a request of several steps.
Ends(w, op) ==
    /\ pc[w] # "idle"
    /\ loc[w].op = op
    /\ pc'[w] = "idle"
    /\ done'.w = w

Succeeded(op) == done.req.op = op /\ done.resp.status = HTTP_200

\* /refresh and /logout turn the cookie away.
RefreshRejects(t) == get_refresh_token_user(t).user = NoUser

\* A refresh token value that has left the store does not come back.
GoneStaysGone == \A t \in 1..nRefresh : t \notin DOMAIN tokens => t \notin DOMAIN tokens'

\* C1: once register(email, password) has stored a user, and while no
\* reset-password has changed that user's password, every login with that
\* email and password ends with 200 and an access token that
\* get_current_user resolves to that user.
C1_LoginAfterRegister ==
    \A u \in DOMAIN users :
        (/\ done.req.op = "login"
         /\ done.req.email = users[u].email
         /\ done.req.password = ghost.plain[u]
         /\ u \notin ghost.reset)
        => /\ done.resp.status = HTTP_200
           /\ get_current_user(done.resp.access_token) = u

C1_Witness ==
    /\ Succeeded("login")
    /\ done.req.uid \notin ghost.reset
    /\ done.req.password = ghost.plain[done.req.uid]
    /\ get_current_user(done.resp.access_token) = done.req.uid

\* C2: a register request whose email belongs to a stored user when it
\* arrives is answered in that step with 400 "Email address already
\* registered", and the users table is the same after as before.
C2_DuplicateEmailRejected ==
    [][\A w \in Workers :
          (Arrives(w, "register") /\ UserByEmail(Arrived(w).email) # {})
          => /\ pc'[w] = "idle"
             /\ done'.resp = DuplicateEmail
             /\ users' = users]_vars

C2_Witness ==
    /\ done.req.op = "register"
    /\ done.resp = DuplicateEmail
    /\ Cardinality(UserByEmail(done.req.email)) = 1

\* C3 (as claimed): after a successful logout of user U no refresh token row
\* of U remains.
C3_NoTokenOfUserRemains ==
    Succeeded("logout") => TokensOf(done.req.uid) = {}

\* C3 (amended): when a logout of user U succeeds, every refresh token row
\* of U that was stored when the request arrived or when its DELETE ran is
\* gone, /refresh rejects each of them, and none of them comes back.
C3_LogoutDeletesStoredTokens ==
    [][/\ \A w \in Workers :
             (Ends(w, "logout") /\ done'.resp.status = HTTP_200)
             => \A t \in loc[w].held \cup loc[w].del :
                    /\ t \notin DOMAIN tokens'
                    /\ RefreshRejects(t)'
       /\ GoneStaysGone]_vars

C3_Witness ==
    /\ Succeeded("logout")
    /\ Cardinality(done.req.held) >= 2
    /\ done.req.held \ {done.req.token} # {}
    /\ \A t \in done.req.held : RefreshRejects(t)

\* C4 (as claimed): a reset-password request that arrives with a token that
\* is unknown, used or past expires_at is rejected with 400, and a request
\* succeeds only with a token that no earlier request has used.
C4_ResetTokenSingleUse ==
    [][\A w \in Workers :
          /\ (Arrives(w, "reset")
              /\ \/ Arrived(w).token \notin DOMAIN resets
                 \/ resets[Arrived(w).token].used
                 \/ resets[Arrived(w).token].expires_at < now)
             => (pc'[w] = "idle" /\ done'.resp.status = HTTP_400)
          /\ (Ends(w, "reset") /\ done'.resp.status = HTTP_200)
             => ~resets[loc[w].token].used]_vars

\* C5: when a reset-password for user U succeeds, every refresh token U had
\* when the request arrived is out of the store and rejected by /refresh and
\* /logout, for good; the refresh token rows of the other users are as before.
C5_ResetRevokesRefreshTokens ==
    [][/\ \A w \in Workers :
             (Ends(w, "reset") /\ done'.resp.status = HTTP_200)
             => /\ \A t \in loc[w].held :
                       /\ t \notin DOMAIN tokens'
                       /\ RefreshRejects(t)'
                /\ \A t \in DOMAIN tokens :
                       tokens[t].user_id # loc[w].uid
                       => (t \in DOMAIN tokens' /\ tokens'[t] = tokens[t])
       /\ GoneStaysGone]_vars

C5_Witness ==
    /\ Succeeded("reset")
    /\ done.req.held # {}
    /\ \E t \in DOMAIN tokens : tokens[t].user_id # done.req.uid

\* C6 (as claimed): a register or reset-password that dies of an exception
\* leaves none of its writes in the store: no user row of a failed register
\* (its refresh token row is never there), no change by a failed reset.
C6_AllOrNothing ==
    [][\A w \in Workers :
          /\ (Ends(w, "register") /\ done'.resp.status = HTTP_500)
             => (loc[w].uid \in DOMAIN users' <=> loc[w].new \in DOMAIN tokens')
          /\ (Ends(w, "reset") /\ done'.resp.status = HTTP_500)
             => store' = store]_vars

\* C7 (as claimed): a successful register has stored the user with a hash
\* that verifies the password, has stored one refresh token row of that
\* user, and hands the caller the access token and that refresh token.
C7_RegisterReturnsBothTokens ==
    Succeeded("register")
    => /\ done.req.uid \in DOMAIN users
       /\ users[done.req.uid].email = done.req.email
       /\ verify_password(done.req.password, users[done.req.uid].password)
       /\ done.req.new \in DOMAIN tokens
       /\ tokens[done.req.new].user_id = done.req.uid
       /\ get_current_user(done.resp.access_token) = done.req.uid
       /\ done.resp.cookie = done.req.new

\* C8: an access token minted for subject S verifies to S until 7 days
\* after it was minted, and to the one invalid result after that, and also
\* when a claim was edited, the signature is of another key, or the string
\* is no JWT.
C8_AccessTokenVerification ==
    /\ held.kind = "minted"
       => verify_token(held.token, now) =
              IF now <= held.iat + ACCESS_TOKEN_EXPIRE_MINUTES THEN held.sub ELSE NoUser
    /\ held.kind \in TamperKinds => verify_token(held.token, now) = NoUser

C8_Witness ==
    /\ held.kind = "minted"
    /\ now = held.iat + ACCESS_TOKEN_EXPIRE_MINUTES + 1
    /\ verify_token(held.token, now) = NoUser

\* C9: forgot-password always answers 200 with the one success message; the
\* response has a reset token only if NODE_ENV is development, and otherwise
\* it is the response given for an email of no user.
UnknownEmailResponse == [NoResp EXCEPT !.status = HTTP_200, !.detail = SuccessMessage]

C9_ForgotPasswordUniform ==
    done.req.op = "forgot"
    => /\ done.resp.status = HTTP_200
       /\ done.resp.detail = SuccessMessage
       /\ done.resp.reset_token # NoToken => done.req.env = "development"
       /\ done.req.env # "development" => done.resp = UnknownEmailResponse

C9_Witness ==
    /\ done.req.op = "forgot"
    /\ done.req.env = "production"
    /\ done.req.new \in DOMAIN resets
    /\ done.resp = UnknownEmailResponse

C11_LoginAddsOneToken ==
    [][\A w \in Workers :
          (Ends(w, "login") /\ done'.resp.status = HTTP_200)
          => LET t == done'.req.new
             IN  /\ t \notin DOMAIN tokens
                 /\ DOMAIN tokens' = DOMAIN tokens \cup {t}
                 /\ tokens'[t].user_id = loc[w].uid
                 /\ \A s \in DOMAIN tokens :
                        /\ tokens'[s] = tokens[s]
                        /\ ~RefreshRejects(s) => ~RefreshRejects(s)']_vars

C11_Witness ==
    /\ Succeeded("login")
    /\ Cardinality(TokensOf(done.req.uid)) >= 2
    /\ \A t \in TokensOf(done.req.uid) : ~RefreshRejects(t)

\* C12: a successful refresh answers with an access token of the token's
\* owner and no new cookie, changes no stored row and generates no refresh
\* token; the presented token is accepted afterwards, and an accepted token
\* stops being accepted only in the commit of a logout that deletes it.
C12_RefreshNotRotated ==
    [][/\ \A w \in Workers, c \in DOMAIN tokens :
             (Arrives(w, "refresh") /\ Arrived(w).token = c /\ done'.resp.status = HTTP_200)
             => /\ store' = store
                /\ nRefresh' = nRefresh
                /\ done'.resp.cookie = NoToken
                /\ ~RefreshRejects(c)'
                /\ verify_token(done'.resp.access_token, now) = tokens[c].user_id
       /\ \A w \in Workers :
             (Arrives(w, "refresh") /\ done'.resp.status = HTTP_200)
             => Arrived(w).token \in DOMAIN tokens
       /\ tokens' # tokens
          => \A t \in DOMAIN tokens :
                (~RefreshRejects(t) /\ RefreshRejects(t)')
                => \E w \in Workers : Ends(w, "logout") /\ t \in loc[w].del
       /\ (users' = users /\ now' = now) \/ tokens' = tokens]_vars

C12_Witness ==
    /\ Succeeded("refresh")
    /\ ~RefreshRejects(done.req.token)
    /\ Cardinality(DOMAIN tokens) >= 2

\* An access token the server minted for a stored user and that has not
\* expired; a refresh token that is stored and has not expired.
ValidAccess(b) ==
    \E u \in DOMAIN users, t \in IssueTimes :
        b = create_access_token(u, t) /\ now <= t + ACCESS_TOKEN_EXPIRE_MINUTES

ValidRefresh(c) == c \in DOMAIN tokens /\ tokens[c].expires_at >= now

Unexpired == {t \in DOMAIN tokens : tokens[t].expires_at >= now}

C14_ExpiredRefreshTokenDeleted ==
    [][\A w \in Workers, c \in DOMAIN tokens :
          (/\ Arrives(w, "refresh") \/ Arrives(w, "logout")
           /\ Arrived(w).token = c
           /\ tokens[c].expires_at < now)
          => /\ pc'[w] = "idle"
             /\ done'.resp.status = HTTP_401
             /\ c \notin DOMAIN tokens']_vars

\* C14 (amended): a /refresh, or a /logout with a valid access token, that
\* arrives with a stored refresh token past its expires_at is answered with
\* 401 "Refresh token expired" and the row is gone: the token is unknown from
\* then on.  A /logout without a valid access token is answered with 401 and
\* leaves the row.  A stored unexpired token whose user is not stored is
\* rejected.
C14_ExpiredRefreshTokenDeletedWhenLookedUp ==
    [][/\ \A w \in Workers, c \in DOMAIN tokens :
             (/\ Arrives(w, "refresh") \/ Arrives(w, "logout")
              /\ Arrived(w).token = c
              /\ tokens[c].expires_at < now)
             => /\ pc'[w] = "idle"
                /\ done'.resp.status = HTTP_401
                /\ IF Arrives(w, "refresh") \/ ValidAccess(Arrived(w).bearer)
                   THEN /\ done'.resp.detail = "Refresh token expired"
                        /\ c \notin DOMAIN tokens'
                        /\ get_refresh_token_user(c)'.detail = "Invalid refresh token"
                   ELSE tokens' = tokens
       /\ \A c \in Unexpired : tokens[c].user_id \notin DOMAIN users => RefreshRejects(c)
       /\ GoneStaysGone]_vars

C14_Witness ==
    /\ done.req.op \in {"refresh", "logout"}
    /\ done.resp.detail = "Refresh token expired"
    /\ done.req.token \notin DOMAIN tokens
    /\ get_refresh_token_user(done.req.token).detail = "Invalid refresh token"

\* The request was told that its reset token is not good.
ReportedInvalid ==
    \/ done.req.op = "reset" /\ done.resp.status = HTTP_400
    \/ done.req.op = "verify" /\ done.resp.detail = "Token is invalid or expired"

\* C15 (as claimed): a reset-password or verify-reset-token that arrives
\* with a stored reset token past its expires_at reports it invalid, and the
\* row is gone after that request.
C15_ExpiredResetTokenDeleted ==
    [][\A w \in Workers, t \in DOMAIN resets :
          (/\ Arrives(w, "reset") \/ Arrives(w, "verify")
           /\ Arrived(w).token = t
           /\ ~resets[t].used
           /\ resets[t].expires_at < now)
          => /\ pc'[w] = "idle"
             /\ ReportedInvalid'
             /\ t \notin DOMAIN resets']_vars

\* C16 (as claimed): when a forgot-password for a user's email has
\* finished, the user has exactly one reset token row: of a value not
\* generated before, unused, expiring 60 minutes from now; every reset token
\* row the user had when the request arrived is out of the store.
C16_ForgotReplacesResetToken ==
    [][\A w \in Workers, u \in DOMAIN users :
          (Ends(w, "forgot") /\ loc[w].uid = u /\ done'.resp.status = HTTP_200)
          => LET t == done'.req.new
             IN  /\ t > nReset
                 /\ ResetsOf(u)' = {t}
                 /\ ~resets'[t].used
                 /\ resets'[t].expires_at = now + ResetExpiryMinutes
                 /\ \A old \in loc[w].del : old \notin DOMAIN resets']_vars

C18_EmailUnique ==
    [][/\ \A e \in Emails : Cardinality(UserByEmail(e)') <= 1
       /\ \A w \in Workers, e \in Emails :
             (pc[w] = "reg_add_user" /\ pc'[w] # "reg_add_user" /\ loc[w].email = e)
             => IF UserByEmail(e) # {}
                THEN /\ done'.resp.status = HTTP_500
                     /\ users' = users
                ELSE /\ pc'[w] = "reg_add_token"
                     /\ loc'[w].uid \notin DOMAIN users
                     /\ UserByEmail(e)' = {loc'[w].uid}
       /\ \A w \in Workers :
             (Ends(w, "register") /\ done'.resp.status = HTTP_200)
             => /\ UserByEmail(loc[w].email) = {loc[w].uid}
                /\ \A v \in Workers \ {w} :
                       loc[v].op = "register" => loc[v].uid # loc[w].uid]_vars

C18_Witness ==
    /\ done.req.op = "register"
    /\ done.resp = ServerError
    /\ Cardinality(UserByEmail(done.req.email)) = 1
    /\ \E w \in Workers : pc[w] = "reg_add_token" /\ loc[w].email = done.req.email

\* Workers whose login has passed the credential check for user u.
LoggingIn(u) == {w \in Workers : pc[w] = "login_add_token" /\ loc[w].uid = u}

\* C19: a login that has passed its credential check can always take its
\* next step, whatever the other worker is doing, and that step ends it with
\* 200; it leaves the other worker's request as it was; the refresh token it
\* hands out is a row of the user that no other login created, and /refresh
\* accepts it.  Where no request deletes tokens, the rows of the earlier
\* logins are all still there.
C19_ConcurrentLoginsIndependent ==
    /\ [](\A w \in Workers : pc[w] = "login_add_token" => ENABLED LoginAddToken(w))
    /\ [][\A w \in Workers, t \in 1..(nRefresh + 1) :
             (Ends(w, "login") /\ pc[w] = "login_add_token")
             => /\ done'.resp.status = HTTP_200
                /\ done'.resp.cookie \in 1..(nRefresh + 1)
                /\ done'.resp.cookie = t
                   => /\ t \notin DOMAIN tokens
                      /\ t \in DOMAIN tokens'
                      /\ tokens'[t].user_id = loc[w].uid
                      /\ get_refresh_token_user(t)'.user = loc[w].uid
                /\ \A s \in DOMAIN tokens : s \in DOMAIN tokens'
                /\ \A v \in Workers \ {w} : pc'[v] = pc[v] /\ loc'[v] = loc[v]]_vars

C19_Witness ==
    /\ Succeeded("login")
    /\ LoggingIn(done.req.uid) # {}

\* C20: a request whose access token is signed by the server and unexpired
\* gets past get_current_user exactly if the token's subject is the id of a
\* stored user, and then acts as that user; with no subject, or a subject
\* that is no stored user's id, it is answered 401 "Could not validate
\* credentials" and nothing is written.
C20_SubjectMustBeStoredUser ==
    [][\A w \in Workers, sub \in Subjects \cup {NoUser} :
          (Arrives(w, "logout") /\ Arrived(w).bearer = create_access_token(sub, now))
          => IF sub \in DOMAIN users
             THEN /\ done'.resp.detail # "Could not validate credentials"
                  /\ pc'[w] = "logout_delete" => loc'[w].uid = sub
             ELSE /\ pc'[w] = "idle"
                  /\ done'.resp = Reject(HTTP_401, "Could not validate credentials")
                  /\ store' = store]_vars

C20_Witness ==
    /\ done.req.op = "logout"
    /\ done.resp = Reject(HTTP_401, "Could not validate credentials")
    /\ \E sub \in Subjects \ DOMAIN users : done.req.bearer = create_access_token(sub, now)
    /\ DOMAIN users # {}
    /\ ValidRefresh(done.req.token)

\* C21: the optional-current-user path never answers with an error: without
\* credentials, and with an access token that is malformed, tampered,
\* expired or names no stored user, it yields no user; with a valid token of
\* a stored user it yields that user.
C21_OptionalNeverPropagates ==
    done.req.op \in {"optional", "optional_no_header"}
    => /\ done.resp.status \notin {HTTP_401, HTTP_403, HTTP_500}
       /\ done.resp.detail = "returned"
       /\ done.resp.user = IF done.req.op = "optional" /\ ValidAccess(done.req.bearer)
                           THEN done.req.bearer.sub ELSE NoUser

\* C22: for all passwords p and p2: the hash of p2 is never p2 itself,
\* verify_password(p, hash_password(p)) is true, and
\* verify_password(p, hash_password(p2)) is false whenever p differs from p2.
C22_HashVerifyAlgebra ==
    trial.stage = "verified"
    => /\ trial.hash.digest # trial.p2
       /\ trial.p = trial.p2 => trial.ok
       /\ trial.p # trial.p2 => ~trial.ok

\* C23: a logout carrying the access token of user A and the refresh token
\* of a different user B succeeds; it deletes every refresh token of A that
\* was stored when the request arrived or when its DELETE ran (a token that
\* a concurrent login or registration of A commits after the DELETE is the
\* only kind that stays), and
\* it leaves every token of every other user, the presented one included,
\* stored, unchanged and accepted by /refresh.
C23_LogoutActsOnAccessTokenUser ==
    [][\A w \in Workers, A \in DOMAIN users, c \in DOMAIN tokens :
          (/\ Ends(w, "logout")
           /\ verify_token(loc[w].bearer, now) = A
           /\ loc[w].token = c
           /\ tokens[c].user_id # A)
          => /\ done'.resp = [NoResp EXCEPT !.status = HTTP_200, !.detail = "Logout successful"]
             /\ loc[w].uid = A
             /\ \A t \in loc[w].held \cup loc[w].del : t \notin DOMAIN tokens'
             /\ DOMAIN tokens' = DOMAIN tokens \ loc[w].del
             /\ \A t \in DOMAIN tokens :
                   tokens[t].user_id # A => t \in DOMAIN tokens' /\ tokens'[t] = tokens[t]
             /\ ~RefreshRejects(c)']_vars

C23_Witness ==
    /\ Succeeded("logout")
    /\ done.req.held # {}
    /\ done.req.token \in DOMAIN tokens
    /\ tokens[done.req.token].user_id # done.req.uid
    /\ ~RefreshRejects(done.req.token)
    /\ TokensOf(done.req.uid) = {}

\* C24: once a reset-password of user U has committed, every refresh token
\* of U that /refresh accepts comes from a login that verified U's new
\* password, also when a login with the old password is in flight beside
\* the reset: a login that inserts its token for U after a reset of U has
\* committed carries a password that U's stored hash verifies.
C24_TokensAfterResetUseNewPassword ==
    [][\A w \in Workers, U \in ghost.reset :
          (Ends(w, "login") /\ loc[w].uid = U /\ done'.resp.status = HTTP_200)
          => /\ verify_password(loc[w].password, users[U].password)
             /\ ~RefreshRejects(loc[w].new)' => loc[w].password = ghost.plain[U]]_vars

\* C25: no flow revokes an access token: an unexpired access token of user U
\* that get_current_user accepts before a logout of U, or before a
\* successful reset-password of U, is accepted as U after it.
C25_AccessTokenNotRevoked ==
    [][\A w \in Workers, U \in DOMAIN users, b \in Minted :
          (/\ Ends(w, "logout") \/ Ends(w, "reset")
           /\ done'.resp.status = HTTP_200
           /\ loc[w].uid = U
           /\ b.sub = U
           /\ ValidAccess(b))
          => /\ get_current_user(b) = U
             /\ get_current_user(b)' = U]_vars

C25_Witness ==
    /\ Succeeded("reset")
    /\ TokensOf(done.req.uid) = {}
    /\ now > 0
    /\ get_current_user(create_access_token(done.req.uid, now)) = done.req.uid
    /\ get_current_user(create_access_token(done.req.uid, 0)) = NoUser

\* C26: a refresh token resolves to the user it was created for and to no
\* other: a login or registration stores its token under a value no row has
\* or ever had, owned by the user of that request; a stored row never
\* changes its owner; and a successful /refresh presenting token T returns
\* an access token whose subject is the owner of T.
C26_RefreshTokenBoundToCreator ==
    [][/\ \A w \in Workers :
             ((Ends(w, "login") \/ Ends(w, "register")) /\ done'.resp.status = HTTP_200)
             => LET T == done'.req.new
                IN  /\ T \notin 1..nRefresh
                    /\ T \notin DOMAIN tokens
                    /\ T \in DOMAIN tokens'
                    /\ tokens'[T].user_id = loc[w].uid
                    /\ done'.resp.user = loc[w].uid
                    /\ users[loc[w].uid].email = loc[w].email
       /\ \A t \in DOMAIN tokens :
             t \in DOMAIN tokens' => tokens'[t].user_id = tokens[t].user_id
       /\ \A w \in Workers, T \in Cookies :
             (Arrives(w, "refresh") /\ Arrived(w).token = T /\ done'.resp.status = HTTP_200)
             => /\ T \in DOMAIN tokens
                /\ done'.resp.access_token = create_access_token(tokens[T].user_id, now)
                /\ verify_token(done'.resp.access_token, now) = tokens[T].user_id]_vars

C26_Witness ==
    /\ Succeeded("refresh")
    /\ \E t \in DOMAIN tokens : tokens[t].user_id # tokens[done.req.token].user_id
    /\ verify_token(done.resp.access_token, now) = tokens[done.req.token].user_id
    /\ done.req.token = nRefresh

\* The reset tokens of user u that can still change u's password: unused
\* and not past expires_at (router.py 213-233).
LiveResets(u) == {t \in ResetsOf(u) : ~resets[t].used /\ ~(resets[t].expires_at < now)}

\* C27: in every reachable state each user has at most one reset token that
\* is unused and unexpired.
C27_AtMostOneLiveResetToken ==
    \A u \in DOMAIN users : Cardinality(LiveResets(u)) <= 1

\* The step in which a handler or a dependency turns worker w's request
\* away: an answer 400 or 401, and the forgot-password for an email of no
\* user, which is answered 200.
Rejected(w) ==
    /\ pc'[w] = "idle"
    /\ done' # done
    /\ done'.w = w
    /\ \/ done'.resp.status \in {HTTP_400, HTTP_401}
       \/ done'.req.op = "forgot" /\ UserByEmail(done'.req.email) = {}

\* C28: a request is rejected in its first step, before it has written
\* anything, and leaves users, refresh tokens and reset tokens as they
\* were, but for one write: a /refresh or /logout that is turned away
\* because its refresh token has expired deletes that token's row, and a
\* reset-password turned away because its reset token has expired deletes
\* that token's row.
C28_RejectedRequestWritesNothing ==
    [][\A w \in Workers :
          Rejected(w)
          => LET req == done'.req
                 r   == done'.resp
             IN  /\ pc[w] = "idle"
                 /\ users' = users
                 /\ nRefresh' = nRefresh /\ nReset' = nReset
                 /\ IF req.op \in {"refresh", "logout"} /\ r.detail = "Refresh token expired"
                    THEN /\ req.token \in DOMAIN tokens
                         /\ tokens[req.token].expires_at < now
                         /\ tokens' = Without(tokens, {req.token})
                    ELSE tokens' = tokens
                 /\ IF req.op = "reset" /\ r.detail = "Reset token has expired"
                    THEN /\ req.token \in DOMAIN resets
                         /\ resets[req.token].expires_at < now
                         /\ resets' = Without(resets, {req.token})
                    ELSE resets' = resets]_vars

C28_Witness ==
    /\ done.req.op = "reset"
    /\ done.resp = Reject(HTTP_400, "Reset token has expired")
    /\ done.req.token \notin DOMAIN resets
    /\ DOMAIN tokens # {}
    /\ DOMAIN users # {}

\* C29: verify-reset-token reports T valid exactly when a reset-password
\* presenting T in the same state passes its token checks, that is when a
\* row with token T is stored, unused and not past expires_at; and the
\* answer writes nothing, so a token reported valid can still be used.
C29_VerifyAgreesWithReset ==
    [][\A w \in Workers, T \in ResetTokens :
          (Arrives(w, "verify") /\ Arrived(w).token = T)
          => LET valid == done'.resp.detail = "Token is valid"
             IN  /\ done'.resp.status = HTTP_200
                 /\ done'.resp.detail \in {"Token is valid", "Token is invalid or expired"}
                 /\ valid <=> \A p \in Passwords :
                                 ENABLED (ResetCheck(w, T, p) /\ pc'[w] = "reset_flush")
                 /\ valid <=> T \in DOMAIN resets /\ T \in LiveResets(resets[T].user_id)
                 /\ store' = store /\ now' = now]_vars

C29_Witness ==
    /\ done.req.op = "verify"
    /\ done.resp.detail = "Token is valid"
    /\ now > 0
    /\ done.req.token \in DOMAIN resets
    /\ ~resets[done.req.token].used

\* C30: in every reachable state an audio file has at most one analysis row;
\* analyze on a file that has an analysis returns that row and inserts
\* nothing; analyze on a file the caller does not own is answered 404 and
\* inserts nothing.
C30_OneAnalysisPerAudioFile ==
    /\ [](\A f \in DOMAIN audio_files : Cardinality(AnalysesOf(f)) <= 1)
    /\ [][\A w \in Workers :
             Arrives(w, "analyze")
             => LET req == Arrived(w)
                IN  /\ speech_analyses' = speech_analyses
                    /\ (req.uid # NoUser /\ req.file \in DOMAIN audio_files
                        /\ audio_files[req.file].user_id = req.uid
                        /\ AnalysesOf(req.file) # {})
                       => /\ done'.resp.status = HTTP_200
                          /\ done'.resp.analysis \in AnalysesOf(req.file)
                    /\ (req.uid # NoUser
                        /\ (req.file \notin DOMAIN audio_files
                            \/ audio_files[req.file].user_id # req.uid))
                       => done'.resp = Reject(HTTP_404, "Audio file not found")]_vars

====
